---- MODULE Spec2Model ----
(***************************************************************************)
(* Model of the admin dashboard of the complaint tracker                   *)
(* (src/src/components/AdminPortal.tsx): the complaint list with its       *)
(* filters, pagination and realtime re-fetch, the stats reduction and the  *)
(* two-step assignment workflow, against a store holding the complaints    *)
(* table and the complaint_status_updates table; and of the function that  *)
(* sends credentials by SMS (src/supabase/functions/analyze-media/         *)
(* index.ts): its validation, the provider call, the console fallback and  *)
(* its responses.                                                          *)
(*                                                                         *)
(* Every `await` of the source is a suspension point: the part of a        *)
(* handler before the await is one action (the request is issued), the     *)
(* store answering it and the handler's continuation is another action     *)
(* (one per outcome: data or error).                                       *)
(***************************************************************************)
EXTENDS Integers, Sequences, FiniteSets

\* ------------------------------------------------------------------------
\* Bounds of the model
\* ------------------------------------------------------------------------
\* rows of the complaints table
NumComplaints == 6
\* complaint fetches (and stats fetches) one session may have in flight
MaxPending == 2
\* handleAssignWorker invocations of one session that pass validation
MaxSubmits == 1
\* clicks on "Update Status" that pass validation where one session may
\* submit again
MaxClicks == 2

\* phone numbers of up to this many digits after the prefix are sent
MaxPhoneDigits == 11

\* status columns of every length up to this are checked
MaxStatsRows == 3

\* ------------------------------------------------------------------------
\* Program constants and value domains
\* ------------------------------------------------------------------------
\* useState(5): "Show 5 complaints per page"
complaintsPerPage == 5

\* SQL NULL / JavaScript null
Null == "<null>"

\* the admin sessions (browser tabs running the component)
Sessions == {"A", "B"}

\* the four items of the status filter; the dialog offers the last three
Statuses == {"Registered", "Assigned", "In-Progress", "Resolved"}
DialogStatuses == {"Assigned", "In-Progress", "Resolved"}
\* two of the eight entries of issueTypes
issueTypes == {"Electricity", "Water Supply"}

\* what an admin may type into the three text inputs
NameInputs == {"", "w2"}
ContactInputs == {"", "c1"}
NoteInputs == {"", "n1"}

\* x || "" of JavaScript
OrEmpty(x) == IF x = Null THEN "" ELSE x

\* !x of JavaScript on a string or null
Falsy(x) == x = Null \/ x = ""

Ids == 1..NumComplaints

\* creation timestamps: distinct, and not in id order
CreatedAt(i) == IF i % 2 = 0 THEN i \div 2 ELSE NumComplaints - (i \div 2)

\* the tables the runs start from: most complaints are closed, the open ones
\* are a new one, one being worked on and one whose status was never set;
\* k shifts which complaint is which
InitStatus(i) ==
    CASE i % 6 = 1 -> "Registered"
      [] i % 6 = 3 -> "Assigned"
      [] i % 6 = 5 -> Null
      [] OTHER -> "Resolved"

InitRow(i, k) ==
    [id |-> i,
     status |-> InitStatus(i + k),
     issue_type |-> IF i = 1 THEN "Water Supply" ELSE "Electricity",
     assigned_to |-> IF InitStatus(i + k) \in DialogStatuses THEN "w1" ELSE Null,
     created_at |-> CreatedAt(i)]

InitTable(k) == [i \in Ids |-> InitRow(i, k)]

\* the shifts the list runs start from
ListShifts == {0, 1}

VARIABLES
    \* ---- the store
    table,            \* complaints: id -> row
    audit,            \* complaint_status_updates, in insertion order
    storeLog,         \* the write requests the store has answered, in order
    \* ---- one AdminPortal component per session
    phase,            \* "init" before the first effect run, then "mounted", then "unmounted"
    complaints,       \* the held page of rows
    stats,            \* the four counters
    loading,
    assignDialogOpen,
    selectedComplaint,
    workerName,
    workerContact,
    statusNote,
    newStatus,
    filters,          \* [status, issueType], "" when unset
    currentPage,
    totalComplaints,
    toast,            \* title of the last notification shown, "" if none
    channels,         \* realtime channels subscribed: what each one's callback fetches
    \* ---- requests in flight
    pendingFetches,   \* fetchComplaints calls awaiting the store, issue order
    pendingStats,     \* number of fetchStats calls awaiting the store
    pendingAssigns,   \* handleAssignWorker invocations awaiting the store
    \* ---- the credential-SMS function (NotificationGateway)
    env,              \* the Twilio variables set in the environment
    request,          \* the request being handled
    handlerAt,        \* where its handler is: the await it is suspended at
    providerCalls,    \* the calls it made to the provider
    providerReply,    \* the provider's response, once fetch resolved with one
    consoleLog,       \* the lines it wrote with console.log
    responses         \* the responses it returned

storeVars == <<table, audit, storeLog>>
listVars == <<complaints, stats, loading, filters, currentPage, totalComplaints,
              channels, pendingFetches, pendingStats>>
formVars == <<assignDialogOpen, selectedComplaint, workerName, workerContact,
              statusNote, newStatus>>
portalVars == <<table, audit, storeLog, phase, complaints, stats, loading,
                assignDialogOpen, selectedComplaint, workerName, workerContact,
                statusNote, newStatus, filters, currentPage, totalComplaints, toast,
                channels, pendingFetches, pendingStats, pendingAssigns>>
gatewayVars == <<env, request, handlerAt, providerCalls, providerReply, consoleLog,
                 responses>>
vars == <<portalVars, gatewayVars>>

\* ------------------------------------------------------------------------
\* The complaint query (QueryBuilder)
\* ------------------------------------------------------------------------
\* a query that never adds the issue-type predicate
MatchesStatusOnly(row, f) == f.status # "" => row.status = f.status

\* the rows the eq() predicates keep; a falsy filter field adds no predicate,
\* and eq never matches NULL
MatchesFilters(row, f) ==
    /\ (f.status # "" => row.status = f.status)
    /\ (f.issueType # "" => row.issue_type = f.issueType)

Matching(tbl, f) == {tbl[i] : i \in {j \in DOMAIN tbl : MatchesFilters(tbl[j], f)}}

\* order('created_at', {ascending: false})
RECURSIVE OrderDesc(_)
OrderDesc(rows) ==
    IF rows = {} THEN <<>>
    ELSE LET top == CHOOSE r \in rows : \A q \in rows : q.created_at <= r.created_at
         IN  <<top>> \o OrderDesc(rows \ {top})

\* const from = (page - 1) * complaintsPerPage
RangeFrom(page) == (page - 1) * complaintsPerPage
\* a range end that forgets the - 1
RangeToOneTooFar(page) == RangeFrom(page) + complaintsPerPage

\* const to = from + complaintsPerPage - 1
RangeTo(page) == RangeFrom(page) + complaintsPerPage - 1

\* range(from, to): the 0-based positions from..to, both inclusive
Range(seq, from, to) ==
    LET last == IF to + 1 < Len(seq) THEN to + 1 ELSE Len(seq)
    IN  IF from + 1 > last THEN <<>> ELSE SubSeq(seq, from + 1, last)

\* the answer to the query fetchComplaints builds; count: 'exact' counts the
\* rows matching the predicates, whatever the range
ComplaintQuery(tbl, f, page) ==
    [data |-> Range(OrderDesc(Matching(tbl, f)), RangeFrom(page), RangeTo(page)),
     count |-> Cardinality(Matching(tbl, f))]

\* ------------------------------------------------------------------------
\* The stats reduction (StatsAggregator)
\* ------------------------------------------------------------------------
\* a status read without toLowerCase()
ToLowerAsIs(st) == st

\* complaint.status?.toLowerCase() on the values the tables hold: the four
\* statuses as the portal writes them, their upper-case spellings and two
\* values that are no status; a value already in lower case, and the null
\* the ?. passes through, come back as they are
ToLower(st) ==
    CASE st = "Registered" -> "registered"
      [] st = "REGISTERED" -> "registered"
      [] st = "Assigned" -> "assigned"
      [] st = "ASSIGNED" -> "assigned"
      [] st = "In-Progress" -> "in-progress"
      [] st = "IN-PROGRESS" -> "in-progress"
      [] st = "Resolved" -> "resolved"
      [] st = "RESOLVED" -> "resolved"
      [] st = "Unknown" -> "unknown"
      [] st = "In Progress" -> "in progress"
      [] OTHER -> st

\* a reduce callback that counts a row in total only when it counted it in
\* one of the three other counters
StatsStepTotalOfKnown(acc, st) ==
    LET status == ToLower(st)
    IN  IF status = "registered" THEN [acc EXCEPT !.pending = @ + 1, !.total = @ + 1]
        ELSE IF status = "assigned" \/ status = "in-progress" THEN [acc EXCEPT !.inProgress = @ + 1, !.total = @ + 1]
        ELSE IF status = "resolved" THEN [acc EXCEPT !.resolved = @ + 1, !.total = @ + 1]
        ELSE acc

\* one step of the reduce callback
StatsStep(acc, st) ==
    LET status == ToLower(st)
        counted ==
            IF status = "registered" THEN [acc EXCEPT !.pending = @ + 1]
            ELSE IF status = "assigned" \/ status = "in-progress" THEN [acc EXCEPT !.inProgress = @ + 1]
            ELSE IF status = "resolved" THEN [acc EXCEPT !.resolved = @ + 1]
            ELSE acc
    IN  [counted EXCEPT !.total = @ + 1]

ZeroStats == [pending |-> 0, inProgress |-> 0, resolved |-> 0, total |-> 0]

\* data.reduce(callback, zero) over the status column
RECURSIVE StatsReduce(_, _)
StatsReduce(data, acc) ==
    IF data = <<>> THEN acc ELSE StatsReduce(Tail(data), StatsStep(acc, Head(data)))

\* select('status'): the status of every row
StatusColumn(tbl) == [i \in 1..Cardinality(DOMAIN tbl) |-> tbl[i].status]

StatsOf(tbl) == StatsReduce(StatusColumn(tbl), ZeroStats)

\* ------------------------------------------------------------------------
\* Initial state: the component's useState values, an empty audit log
\* ------------------------------------------------------------------------
NoComplaint == [id |-> 0]

\* the component of every session as constructed, over the table tbl
PortalInit(tbl) ==
    /\ table = tbl
    /\ audit = <<>>
    /\ storeLog = <<>>
    /\ phase = [s \in Sessions |-> "init"]
    /\ complaints = [s \in Sessions |-> <<>>]
    /\ stats = [s \in Sessions |-> ZeroStats]
    /\ loading = [s \in Sessions |-> TRUE]
    /\ assignDialogOpen = [s \in Sessions |-> FALSE]
    /\ selectedComplaint = [s \in Sessions |-> NoComplaint]
    /\ workerName = [s \in Sessions |-> ""]
    /\ workerContact = [s \in Sessions |-> ""]
    /\ statusNote = [s \in Sessions |-> ""]
    /\ newStatus = [s \in Sessions |-> ""]
    /\ filters = [s \in Sessions |-> [status |-> "", issueType |-> ""]]
    /\ currentPage = [s \in Sessions |-> 1]
    /\ totalComplaints = [s \in Sessions |-> 0]
    /\ toast = [s \in Sessions |-> ""]
    /\ channels = [s \in Sessions |-> <<>>]
    /\ pendingFetches = [s \in Sessions |-> <<>>]
    /\ pendingStats = [s \in Sessions |-> 0]
    /\ pendingAssigns = [s \in Sessions |-> <<>>]

\* a parsed body: the fields it has and their values ("" and <<>> when a
\* field is not there); the body of a request that has none
NoBody == [has |-> {}, phone |-> <<>>, username |-> "", password |-> ""]

\* no request received yet
NoRequest == [method |-> "none", parsable |-> FALSE, body |-> NoBody]

\* fetch has not settled
NoReply == [settled |-> "no", ok |-> FALSE, parsable |-> FALSE, message |-> ""]

\* the state of the function with the variables e set and no request yet
GatewayIdle(e) ==
    /\ env = e
    /\ request = NoRequest
    /\ handlerAt = "idle"
    /\ providerCalls = <<>>
    /\ providerReply = NoReply
    /\ consoleLog = <<>>
    /\ responses = <<>>

\* the portal as constructed over the table tbl, next to a function deployed
\* without credentials
InitOver(tbl) == PortalInit(tbl) /\ GatewayIdle({})

Init == InitOver(InitTable(0))

ListInit == \E k \in ListShifts : InitOver(InitTable(k))

\* ------------------------------------------------------------------------
\* ListController: the effect, its triggers and the two fetches
\* ------------------------------------------------------------------------
RemoveAt(seq, i) == SubSeq(seq, 1, i - 1) \o SubSeq(seq, i + 1, Len(seq))

\* the model's cap on requests in flight
CanFetch(s) == Len(pendingFetches[s]) < MaxPending /\ pendingStats[s] < MaxPending

\* fetchComplaints(page) up to its await: setLoading(true), and the query is
\* sent with the filters of the render the closure belongs to
FetchRequest(f, page) == [page |-> page, status |-> f.status, issueType |-> f.issueType]

\* a fetchComplaints that aborts the fetches still in flight
StartFetchesCancelsEarlier(s, f, page) ==
    /\ loading' = [loading EXCEPT ![s] = TRUE]
    /\ pendingFetches' = [pendingFetches EXCEPT ![s] = <<FetchRequest(f, page)>>]
    /\ pendingStats' = [pendingStats EXCEPT ![s] = @ + 1]

\* fetchComplaints(currentPage); fetchStats(); both up to their await
StartFetches(s, f, page) ==
    /\ loading' = [loading EXCEPT ![s] = TRUE]
    /\ pendingFetches' = [pendingFetches EXCEPT ![s] = Append(@, FetchRequest(f, page))]
    /\ pendingStats' = [pendingStats EXCEPT ![s] = @ + 1]

\* a cleanup that forgets supabase.removeChannel(channel)
ChannelKept(chs) == chs

\* the cleanup of an effect run: supabase.removeChannel(channel) removes the
\* channel that run subscribed
ChannelRemoved(chs) == Tail(chs)

\* an effect whose cleanup does not remove the channel
ResubscribedWithoutCleanup(chs, mounted, closure) == Append(chs, closure)

\* the channels after one run of the effect: the cleanup of the previous run
\* (there is one once mounted) removes its channel, then a channel is
\* subscribed whose callback calls the fetchComplaints and the currentPage
\* of this render
Resubscribed(chs, mounted, closure) ==
    Append(IF mounted THEN ChannelRemoved(chs) ELSE chs, closure)

\* one run of the effect for the render with filters f and page p: both
\* fetches start and the channel is replaced
RunEffect(s, f, page) ==
    /\ StartFetches(s, f, page)
    /\ channels' = [channels EXCEPT ![s] =
                        Resubscribed(@, phase[s] = "mounted", FetchRequest(f, page))]

\* first render committed: the effect runs for the first time
Mount(s) ==
    /\ phase[s] = "init"
    /\ CanFetch(s)
    /\ phase' = [phase EXCEPT ![s] = "mounted"]
    /\ RunEffect(s, filters[s], currentPage[s])
    /\ UNCHANGED <<gatewayVars, storeVars, formVars, complaints, stats, filters, currentPage,
                   totalComplaints, toast, pendingAssigns>>

\* the component is removed from the page: the cleanup of the last effect
\* run removes its channel. Requests in flight are not cancelled.
Unmount(s) ==
    /\ phase[s] = "mounted"
    /\ phase' = [phase EXCEPT ![s] = "unmounted"]
    /\ channels' = [channels EXCEPT ![s] = ChannelRemoved(@)]
    /\ UNCHANGED <<gatewayVars, storeVars, formVars, complaints, stats, loading, filters,
                   currentPage, totalComplaints, toast, pendingFetches, pendingStats,
                   pendingAssigns>>

\* value === 'all' ? '' : value
FilterValue(value) == IF value = "all" THEN "" ELSE value

\* a filter Select that forgets setCurrentPage(1)
FilterChangeKeepsPage(s, f) ==
    /\ filters' = [filters EXCEPT ![s] = f]
    /\ UNCHANGED currentPage

\* the state a filter Select leaves behind: setFilters({...}); setCurrentPage(1)
FilterChange(s, f) ==
    /\ filters' = [filters EXCEPT ![s] = f]
    /\ currentPage' = [currentPage EXCEPT ![s] = 1]

\* onValueChange of the issue-type Select, and the effect it re-runs
SetIssueTypeFilter(s, value) ==
    /\ phase[s] = "mounted"
    /\ CanFetch(s)
    /\ FilterChange(s, [filters[s] EXCEPT !.issueType = FilterValue(value)])
    /\ RunEffect(s, filters'[s], currentPage'[s])
    /\ UNCHANGED <<gatewayVars, storeVars, formVars, phase, complaints, stats, totalComplaints,
                   toast, pendingAssigns>>

\* onValueChange of the status Select, and the effect it re-runs
SetStatusFilter(s, value) ==
    /\ phase[s] = "mounted"
    /\ CanFetch(s)
    /\ FilterChange(s, [filters[s] EXCEPT !.status = FilterValue(value)])
    /\ RunEffect(s, filters'[s], currentPage'[s])
    /\ UNCHANGED <<gatewayVars, storeVars, formVars, phase, complaints, stats, totalComplaints,
                   toast, pendingAssigns>>

\* disabled={currentPage === 1}
PreviousDisabled(s) == currentPage[s] = 1
\* a Next button compared with > instead of >=
NextDisabledOffByOne(s) == currentPage[s] * complaintsPerPage > totalComplaints[s]

\* disabled={currentPage * complaintsPerPage >= totalComplaints}
NextDisabled(s) == currentPage[s] * complaintsPerPage >= totalComplaints[s]

\* onClick of Previous: setCurrentPage(currentPage - 1), and the effect
PreviousPage(s) ==
    /\ phase[s] = "mounted"
    /\ ~PreviousDisabled(s)
    /\ CanFetch(s)
    /\ currentPage' = [currentPage EXCEPT ![s] = @ - 1]
    /\ RunEffect(s, filters[s], currentPage'[s])
    /\ UNCHANGED <<gatewayVars, storeVars, formVars, phase, complaints, stats, filters,
                   totalComplaints, toast, pendingAssigns>>

\* onClick of Next: setCurrentPage(currentPage + 1), and the effect
NextPage(s) ==
    /\ phase[s] = "mounted"
    /\ ~NextDisabled(s)
    /\ CanFetch(s)
    /\ currentPage' = [currentPage EXCEPT ![s] = @ + 1]
    /\ RunEffect(s, filters[s], currentPage'[s])
    /\ UNCHANGED <<gatewayVars, storeVars, formVars, phase, complaints, stats, filters,
                   totalComplaints, toast, pendingAssigns>>

\* a change of the complaints table is pushed to a subscribed channel: its
\* callback ignores the payload and calls the fetchComplaints, with the
\* currentPage, of the render its effect run belongs to, then fetchStats
RealtimeEvent(s) ==
    /\ CanFetch(s)
    /\ \E c \in 1..Len(channels[s]) :
          StartFetches(s, [status |-> channels[s][c].status,
                           issueType |-> channels[s][c].issueType],
                       channels[s][c].page)
    /\ UNCHANGED <<gatewayVars, storeVars, formVars, phase, complaints, stats, filters,
                   currentPage, totalComplaints, toast, channels, pendingAssigns>>

\* setComplaints(data || []); setTotalComplaints(count || 0)
HoldResult(s, res) ==
    /\ complaints' = [complaints EXCEPT ![s] = res.data]
    /\ totalComplaints' = [totalComplaints EXCEPT ![s] = res.count]

\* the store answers the i-th fetch in flight with data: the rest of the try
\* block, then finally setLoading(false)
FetchComplaintsOk(s, i) ==
    /\ i \in 1..Len(pendingFetches[s])
    /\ LET req == pendingFetches[s][i]
       IN  HoldResult(s, ComplaintQuery(table, [status |-> req.status, issueType |-> req.issueType], req.page))
    /\ loading' = [loading EXCEPT ![s] = FALSE]
    /\ pendingFetches' = [pendingFetches EXCEPT ![s] = RemoveAt(@, i)]
    /\ UNCHANGED <<gatewayVars, storeVars, formVars, phase, stats, filters, currentPage, toast,
                   channels, pendingStats, pendingAssigns>>

\* a catch block that clears the list
FetchFailureClears(s) ==
    /\ complaints' = [complaints EXCEPT ![s] = <<>>]
    /\ totalComplaints' = [totalComplaints EXCEPT ![s] = 0]

\* what the catch block of fetchComplaints does to the held list and total
FetchFailureKeeps(s) == UNCHANGED <<complaints, totalComplaints>>

\* a fetchComplaints without its finally block: a failure leaves loading on
FetchComplaintsErrStaysLoading(s, i) ==
    /\ i \in 1..Len(pendingFetches[s])
    /\ FetchFailureKeeps(s)
    /\ toast' = [toast EXCEPT ![s] = "Error fetching complaints"]
    /\ pendingFetches' = [pendingFetches EXCEPT ![s] = RemoveAt(@, i)]
    /\ UNCHANGED <<gatewayVars, storeVars, formVars, phase, stats, filters, currentPage,
                   loading, channels, pendingStats, pendingAssigns>>

\* the store answers the i-th fetch in flight with an error: the catch block
\* (a toast), then finally setLoading(false)
FetchComplaintsErr(s, i) ==
    /\ i \in 1..Len(pendingFetches[s])
    /\ FetchFailureKeeps(s)
    /\ toast' = [toast EXCEPT ![s] = "Error fetching complaints"]
    /\ loading' = [loading EXCEPT ![s] = FALSE]
    /\ pendingFetches' = [pendingFetches EXCEPT ![s] = RemoveAt(@, i)]
    /\ UNCHANGED <<gatewayVars, storeVars, formVars, phase, stats, filters, currentPage,
                   channels, pendingStats, pendingAssigns>>

\* the store answers a stats fetch with the status column: reduce, setStats
FetchStatsOk(s) ==
    /\ pendingStats[s] > 0
    /\ stats' = [stats EXCEPT ![s] = StatsOf(table)]
    /\ pendingStats' = [pendingStats EXCEPT ![s] = @ - 1]
    /\ UNCHANGED <<gatewayVars, storeVars, formVars, phase, complaints, loading, filters, currentPage,
                   totalComplaints, toast, channels, pendingFetches, pendingAssigns>>

\* what the catch block of fetchStats does to the counters (console.error only)
StatsFailureKeeps(s) == UNCHANGED stats

\* the store answers a stats fetch with an error
FetchStatsErr(s) ==
    /\ pendingStats[s] > 0
    /\ StatsFailureKeeps(s)
    /\ pendingStats' = [pendingStats EXCEPT ![s] = @ - 1]
    /\ UNCHANGED <<gatewayVars, storeVars, formVars, phase, complaints, loading, filters, currentPage,
                   totalComplaints, toast, channels, pendingFetches, pendingAssigns>>

\* ------------------------------------------------------------------------
\* AssignmentWorkflow: the dialog, its form and handleAssignWorker
\* ------------------------------------------------------------------------
\* the Update button of the k-th listed row (the list is rendered when not
\* loading; the button is disabled on a row shown as Resolved)
OpenAssignDialog(s, k) ==
    /\ phase[s] = "mounted"
    /\ ~loading[s]
    /\ k \in 1..Len(complaints[s])
    /\ complaints[s][k].status # "Resolved"
    /\ selectedComplaint' = [selectedComplaint EXCEPT ![s] = complaints[s][k]]
    /\ newStatus' = [newStatus EXCEPT ![s] = OrEmpty(complaints[s][k].status)]
    /\ workerName' = [workerName EXCEPT ![s] = OrEmpty(complaints[s][k].assigned_to)]
    /\ workerContact' = [workerContact EXCEPT ![s] = OrEmpty(complaints[s][k].status)]
    /\ assignDialogOpen' = [assignDialogOpen EXCEPT ![s] = TRUE]
    /\ UNCHANGED <<gatewayVars, storeVars, listVars, phase, statusNote, toast, pendingAssigns>>

\* the form is rendered: the dialog is open and {selectedComplaint && ...}
FormShown(s) == assignDialogOpen[s] /\ selectedComplaint[s] # NoComplaint

\* onOpenChange(false): the dialog is dismissed, its fields stay
CloseAssignDialog(s) ==
    /\ assignDialogOpen[s]
    /\ assignDialogOpen' = [assignDialogOpen EXCEPT ![s] = FALSE]
    /\ UNCHANGED <<gatewayVars, storeVars, listVars, phase, selectedComplaint, workerName,
                   workerContact, statusNote, newStatus, toast, pendingAssigns>>

\* onValueChange of the dialog's status Select
SetNewStatus(s, v) ==
    /\ FormShown(s)
    /\ newStatus' = [newStatus EXCEPT ![s] = v]
    /\ UNCHANGED <<gatewayVars, storeVars, listVars, phase, assignDialogOpen, selectedComplaint,
                   workerName, workerContact, statusNote, toast, pendingAssigns>>

\* onChange of the worker-name input
SetWorkerName(s, v) ==
    /\ FormShown(s)
    /\ workerName' = [workerName EXCEPT ![s] = v]
    /\ UNCHANGED <<gatewayVars, storeVars, listVars, phase, assignDialogOpen, selectedComplaint,
                   workerContact, statusNote, newStatus, toast, pendingAssigns>>

\* onChange of the worker-contact input
SetWorkerContact(s, v) ==
    /\ FormShown(s)
    /\ workerContact' = [workerContact EXCEPT ![s] = v]
    /\ UNCHANGED <<gatewayVars, storeVars, listVars, phase, assignDialogOpen, selectedComplaint,
                   workerName, statusNote, newStatus, toast, pendingAssigns>>

\* onChange of the note textarea
SetStatusNote(s, v) ==
    /\ FormShown(s)
    /\ statusNote' = [statusNote EXCEPT ![s] = v]
    /\ UNCHANGED <<gatewayVars, storeVars, listVars, phase, assignDialogOpen, selectedComplaint,
                   workerName, workerContact, newStatus, toast, pendingAssigns>>

\* a validation that forgets the contact field
FormRejectedIgnoringContact(s) ==
    \/ selectedComplaint[s] = NoComplaint
    \/ Falsy(workerName[s])
    \/ Falsy(newStatus[s])

\* !selectedComplaint || !workerName || !workerContact || !newStatus
FormRejected(s) ==
    \/ selectedComplaint[s] = NoComplaint
    \/ Falsy(workerName[s])
    \/ Falsy(workerContact[s])
    \/ Falsy(newStatus[s])

\* invocations of handleAssignWorker by the sessions S that passed validation
\* so far: those whose update the store has answered and those awaiting it
Submitted(S) ==
    Cardinality({q \in 1..Len(storeLog) : storeLog[q].op = "update" /\ storeLog[q].by \in S})
    + Cardinality({p \in UNION {{<<s, j>> : j \in 1..Len(pendingAssigns[s])} : s \in S} :
                     pendingAssigns[p[1]][p[2]].pc = "update"})

\* what an invocation carries across its awaits: the values of its closure
Invocation(s) ==
    [inv |-> Submitted(Sessions) + 1,
     pc |-> "update",
     complaint_id |-> selectedComplaint[s].id,
     status |-> newStatus[s],
     assigned_to |-> workerName[s],
     assigned_contact |-> workerContact[s],
     note |-> statusNote[s]]

\* onClick of "Update Status": handleAssignWorker up to its first await.
\* Either the validation toast and return, or the update request is issued.
\* The button carries no disabled attribute and the handler keeps no flag
\* of a call in flight: the only limit is the model's cap on the
\* invocations of one session.
HandleAssignWorkerUpTo(s, cap) ==
    /\ FormShown(s)
    /\ IF FormRejected(s)
       THEN /\ toast' = [toast EXCEPT ![s] = "Please fill all fields"]
            /\ UNCHANGED pendingAssigns
       ELSE /\ Submitted({s}) < cap
            /\ pendingAssigns' = [pendingAssigns EXCEPT ![s] = Append(@, Invocation(s))]
            /\ UNCHANGED toast
    /\ UNCHANGED <<gatewayVars, storeVars, listVars, formVars, phase>>

\* the handler in the specifications that let a session submit MaxSubmits
\* times
HandleAssignWorker(s) == HandleAssignWorkerUpTo(s, MaxSubmits)

\* the place of a status in the order Registered, Assigned, In-Progress,
\* Resolved (0 for a value that is none of them)
StatusRank(st) ==
    CASE st = "Registered" -> 1
      [] st = "Assigned" -> 2
      [] st = "In-Progress" -> 3
      [] st = "Resolved" -> 4
      [] OTHER -> 0

\* an update that the store applies only when it does not move the
\* complaint back in the status order
UpdatedTableForwardOnly(tbl, a) ==
    [i \in DOMAIN tbl |->
        IF tbl[i].id = a.complaint_id /\ StatusRank(a.status) >= StatusRank(tbl[i].status)
        THEN [tbl[i] EXCEPT !.status = a.status, !.assigned_to = a.assigned_to]
        ELSE tbl[i]]

\* an update that lost its .eq('id', ...) and writes every row
UpdatedTableEveryRow(tbl, a) ==
    [i \in DOMAIN tbl |-> [tbl[i] EXCEPT !.status = a.status, !.assigned_to = a.assigned_to]]

\* .update({status, assigned_to}).eq('id', id) applied to the table
UpdatedTable(tbl, a) ==
    [i \in DOMAIN tbl |->
        IF tbl[i].id = a.complaint_id
        THEN [tbl[i] EXCEPT !.status = a.status, !.assigned_to = a.assigned_to]
        ELSE tbl[i]]

\* the row .insert({...}) adds to complaint_status_updates
StatusUpdateRecord(a) ==
    [complaint_id |-> a.complaint_id,
     status |-> a.status,
     assigned_to |-> a.assigned_to,
     assigned_contact |-> a.assigned_contact,
     note |-> a.note]

\* an insert into a log that keeps only its newest record
InsertedAuditKeepsNewest(log, a) == <<StatusUpdateRecord(a)>>

\* an insert that replaces the record the complaint already has (an upsert)
InsertedAuditOnePerComplaint(log, a) ==
    Append(SelectSeq(log, LAMBDA r : r.complaint_id # a.complaint_id), StatusUpdateRecord(a))

\* .insert({...}) applied to complaint_status_updates
InsertedAudit(log, a) == Append(log, StatusUpdateRecord(a))

\* one answered write request
Answered(s, a, op, ok) ==
    [op |-> op, by |-> s, inv |-> a.inv, ok |-> ok,
     complaint_id |-> a.complaint_id, status |-> a.status, assigned_to |-> a.assigned_to]

\* the store applies the update of the j-th invocation in flight and answers
\* without error: the handler goes on and issues the insert
AssignUpdateOk(s, j) ==
    /\ j \in 1..Len(pendingAssigns[s])
    /\ pendingAssigns[s][j].pc = "update"
    /\ table' = UpdatedTable(table, pendingAssigns[s][j])
    /\ storeLog' = Append(storeLog, Answered(s, pendingAssigns[s][j], "update", TRUE))
    /\ pendingAssigns' = [pendingAssigns EXCEPT ![s][j].pc = "insert"]
    /\ UNCHANGED <<gatewayVars, audit, listVars, formVars, phase, toast>>

\* a handler that ignores updateError and goes on to the insert
AfterUpdateErrorGoesOn(pend, j) == [pend EXCEPT ![j].pc = "insert"]

\* the invocations in flight after invocation j caught the error of its
\* update: throw updateError leaves the try block, nothing more is sent
AfterUpdateError(pend, j) == RemoveAt(pend, j)

\* the store answers the update with an error: the catch block (a toast)
AssignUpdateErr(s, j) ==
    /\ j \in 1..Len(pendingAssigns[s])
    /\ pendingAssigns[s][j].pc = "update"
    /\ storeLog' = Append(storeLog, Answered(s, pendingAssigns[s][j], "update", FALSE))
    /\ pendingAssigns' = [pendingAssigns EXCEPT ![s] = AfterUpdateError(@, j)]
    /\ toast' = [toast EXCEPT ![s] = "Error assigning worker"]
    /\ UNCHANGED <<gatewayVars, table, audit, listVars, formVars, phase>>

\* the store inserts the audit row and answers without error: the success
\* toast, the dialog closes and the form is reset
AssignInsertOk(s, j) ==
    /\ j \in 1..Len(pendingAssigns[s])
    /\ pendingAssigns[s][j].pc = "insert"
    /\ audit' = InsertedAudit(audit, pendingAssigns[s][j])
    /\ storeLog' = Append(storeLog, Answered(s, pendingAssigns[s][j], "insert", TRUE))
    /\ pendingAssigns' = [pendingAssigns EXCEPT ![s] = RemoveAt(@, j)]
    /\ toast' = [toast EXCEPT ![s] = "Worker Assigned Successfully"]
    /\ assignDialogOpen' = [assignDialogOpen EXCEPT ![s] = FALSE]
    /\ workerName' = [workerName EXCEPT ![s] = ""]
    /\ workerContact' = [workerContact EXCEPT ![s] = ""]
    /\ statusNote' = [statusNote EXCEPT ![s] = ""]
    /\ newStatus' = [newStatus EXCEPT ![s] = ""]
    /\ selectedComplaint' = [selectedComplaint EXCEPT ![s] = NoComplaint]
    /\ UNCHANGED <<gatewayVars, table, listVars, phase>>

\* a handler that sends the insert again when it failed
AfterInsertErrorRetries(pend, j) == pend

\* the invocations in flight after invocation j caught the error of its
\* insert: the catch block sends nothing
AfterInsertError(pend, j) == RemoveAt(pend, j)

\* the store answers the insert with an error: the catch block (a toast)
AssignInsertErr(s, j) ==
    /\ j \in 1..Len(pendingAssigns[s])
    /\ pendingAssigns[s][j].pc = "insert"
    /\ storeLog' = Append(storeLog, Answered(s, pendingAssigns[s][j], "insert", FALSE))
    /\ pendingAssigns' = [pendingAssigns EXCEPT ![s] = AfterInsertError(@, j)]
    /\ toast' = [toast EXCEPT ![s] = "Error assigning worker"]
    /\ UNCHANGED <<gatewayVars, table, audit, listVars, formVars, phase>>

\* ------------------------------------------------------------------------
\* NotificationGateway: the serve handler of the credential-SMS function
\* ------------------------------------------------------------------------
\* the three variables read from the environment when the module loads
Credentials == {"TWILIO_ACCOUNT_SID", "TWILIO_AUTH_TOKEN", "TWILIO_PHONE_NUMBER"}

\* the fields the handler reads from the request body
FieldNames == {"phone", "username", "password"}

\* \d
Digits == {"0", "1", "2", "3", "4", "5", "6", "7", "8", "9"}

\* the 10 of \d{10}
PhoneDigits == 10

\* status: 200 and status: 400
StatusOk == 200
StatusBadRequest == 400

\* a phone number is the sequence of its characters; n digits in a row
DigitRun(n) == [i \in 1..n |-> IF i % 2 = 0 THEN "4" ELSE "7"]

\* the phone numbers requests carry: a prefix, 0 to MaxPhoneDigits digits,
\* a suffix; and a number with a dash between its digits
PhonePrefixes == {<<>>, <<"+", "9", "1">>, <<"9", "1">>, <<"+", "9", "2">>, <<" ", "+", "9", "1">>}
PhoneSuffixes == {<<>>, <<"a">>, <<" ">>, <<"<LF>">>}
Phones ==
    {p \o DigitRun(n) \o x : p \in PhonePrefixes, n \in 0..MaxPhoneDigits, x \in PhoneSuffixes}
        \cup {<<"+", "9", "1">> \o DigitRun(5) \o <<"-">> \o DigitRun(PhoneDigits - 5)}

UsernameInputs == {"", "u1"}
PasswordInputs == {"", "p1"}

\* the parsed bodies: the fields each has and their values
Bodies ==
    {[has |-> h,
      phone |-> IF "phone" \in h THEN p ELSE <<>>,
      username |-> IF "username" \in h THEN u ELSE "",
      password |-> IF "password" \in h THEN w ELSE ""] :
        h \in SUBSET FieldNames, p \in Phones, u \in UsernameInputs, w \in PasswordInputs}

\* the requests: a preflight, a POST whose body is not JSON, and a POST with
\* each body
Requests ==
    {[method |-> m, parsable |-> FALSE, body |-> NoBody] : m \in {"OPTIONS", "POST"}}
        \cup {[method |-> "POST", parsable |-> TRUE, body |-> b] : b \in Bodies}

\* what fetch settles with: a response (ok or not, its body JSON or not, the
\* message of that JSON, "" when it has none) or a rejection
FetchRejected == [settled |-> "rejected", ok |-> FALSE, parsable |-> FALSE, message |-> ""]
ProviderReplies ==
    {[settled |-> "response", ok |-> TRUE, parsable |-> TRUE, message |-> ""]}
        \cup {[settled |-> "response", ok |-> FALSE, parsable |-> p, message |-> m] :
                 p \in BOOLEAN, m \in {"", "m1"}}

\* a regular expression that lost its $
MatchesPhonePatternUnanchored(phone) ==
    /\ Len(phone) >= 3 + PhoneDigits
    /\ phone[1] = "+" /\ phone[2] = "9" /\ phone[3] = "1"
    /\ \A i \in 4..(3 + PhoneDigits) : phone[i] \in Digits

\* /^\+91\d{10}$/.test(phone)
MatchesPhonePattern(phone) ==
    /\ Len(phone) = 3 + PhoneDigits
    /\ phone[1] = "+" /\ phone[2] = "9" /\ phone[3] = "1"
    /\ \A i \in 4..Len(phone) : phone[i] \in Digits

\* !phone || !username || !password: a field that is not there is
\* undefined, and the empty string is falsy as well
MissingParameters(body) ==
    \/ "phone" \notin body.has \/ body.phone = <<>>
    \/ "username" \notin body.has \/ body.username = ""
    \/ "password" \notin body.has \/ body.password = ""

\* a test that sends as soon as one variable is set
AnyCredentialConfigured(e) == e # {}

\* TWILIO_ACCOUNT_SID && TWILIO_AUTH_TOKEN && TWILIO_PHONE_NUMBER
CredentialsConfigured(e) == Credentials \subseteq e

\* the template literal of the SMS text, as its parts
SmsBody(body) ==
    <<"Welcome to Nagar Rakshak! Your username is ", body.username,
      " and your password is ", body.password, ". Please keep them safe.">>

\* the POST to the provider's Messages endpoint
ProviderCall(body) == [to |-> body.phone, from |-> "TWILIO_PHONE_NUMBER", body |-> SmsBody(body)]

\* one console line, as its parts
LogLine(level, parts) == [level |-> level, parts |-> parts]

\* the six console.log lines of the fallback
FallbackLines(body) ==
    << LogLine("log", <<"--- Twilio credentials not found. Logging SMS content instead. ---">>),
       LogLine("log", <<"--- SMS to ", body.phone, " ---">>),
       LogLine("log", <<"Welcome to Nagar Rakshak!">>),
       LogLine("log", <<"Your username: ", body.username>>),
       LogLine("log", <<"Your password: ", body.password>>),
       LogLine("log", <<"--- End of SMS ---">>) >>

\* new Response('ok', {headers: corsHeaders})
PreflightResponse ==
    [status |-> StatusOk, json |-> FALSE, success |-> FALSE, text |-> <<"ok">>]

\* {success: true, message: "Credentials sent successfully."}, status 200
SuccessResponse ==
    [status |-> StatusOk, json |-> TRUE, success |-> TRUE,
     text |-> <<"Credentials sent successfully.">>]

\* {success: false, error: errorMessage}, status 400
ErrorResponse(message) ==
    [status |-> StatusBadRequest, json |-> TRUE, success |-> FALSE, text |-> message]

\* the message of the SyntaxError json() throws
JsonSyntaxMessage == <<"Unexpected end of JSON input">>

\* an error text that leaves the provider's message out
ProviderErrorMessageGeneric(reply) == <<"Twilio Error: ", "Failed to send SMS.">>

\* `Twilio Error: ${errorData.message || 'Failed to send SMS.'}`
ProviderErrorMessage(reply) ==
    <<"Twilio Error: ", IF reply.message # "" THEN reply.message ELSE "Failed to send SMS.">>

\* an Error with this message is thrown inside the try block: the catch
\* block writes it with console.error and returns the error response
Throw(message) ==
    /\ consoleLog' = Append(consoleLog, LogLine("error", <<"Error sending credentials:">> \o message))
    /\ responses' = Append(responses, ErrorResponse(message))
    /\ handlerAt' = "returned"

\* a request arrives: the handler runs up to the preflight return or up to
\* await req.json()
Receive(req) ==
    /\ handlerAt = "idle"
    /\ request' = req
    /\ IF req.method = "OPTIONS"
       THEN /\ responses' = Append(responses, PreflightResponse)
            /\ handlerAt' = "returned"
       ELSE /\ handlerAt' = "req.json"
            /\ UNCHANGED responses
    /\ UNCHANGED <<portalVars, env, providerCalls, providerReply, consoleLog>>

\* req.json() settles: the handler runs on to a throw, to await fetch, or
\* through the fallback to the success response
BodyRead ==
    /\ handlerAt = "req.json"
    /\ IF ~request.parsable
       THEN Throw(JsonSyntaxMessage) /\ UNCHANGED providerCalls
       ELSE IF MissingParameters(request.body)
       THEN Throw(<<"Missing required parameters: phone, username, or password.">>)
            /\ UNCHANGED providerCalls
       ELSE IF ~MatchesPhonePattern(request.body.phone)
       THEN Throw(<<"Invalid phone number format. Expected '+91' followed by 10 digits.">>)
            /\ UNCHANGED providerCalls
       ELSE IF CredentialsConfigured(env)
       THEN /\ providerCalls' = Append(providerCalls, ProviderCall(request.body))
            /\ handlerAt' = "fetch"
            /\ UNCHANGED <<consoleLog, responses>>
       ELSE /\ consoleLog' = consoleLog \o FallbackLines(request.body)
            /\ responses' = Append(responses, SuccessResponse)
            /\ handlerAt' = "returned"
            /\ UNCHANGED providerCalls
    /\ UNCHANGED <<portalVars, env, request, providerReply>>

\* fetch resolves with the provider's response: the success response when
\* response.ok, else on to await response.json()
FetchResolves(reply) ==
    /\ handlerAt = "fetch"
    /\ providerReply' = reply
    /\ IF reply.ok
       THEN /\ responses' = Append(responses, SuccessResponse)
            /\ handlerAt' = "returned"
       ELSE /\ handlerAt' = "response.json"
            /\ UNCHANGED responses
    /\ UNCHANGED <<portalVars, env, request, providerCalls, consoleLog>>

\* fetch rejects (the provider cannot be reached)
FetchRejects ==
    /\ handlerAt = "fetch"
    /\ providerReply' = FetchRejected
    /\ Throw(<<"error sending request">>)
    /\ UNCHANGED <<portalVars, env, request, providerCalls>>

\* response.json() of a non-ok response settles: the Twilio Error is thrown,
\* or the SyntaxError of a body that is not JSON
ErrorBodyRead ==
    /\ handlerAt = "response.json"
    /\ IF providerReply.parsable
       THEN Throw(ProviderErrorMessage(providerReply))
       ELSE Throw(JsonSyntaxMessage)
    /\ UNCHANGED <<portalVars, env, request, providerCalls, providerReply>>

\* ------------------------------------------------------------------------
\* Specifications
\* ------------------------------------------------------------------------
Admin == {"A"}

\* ListSpec: one admin session browsing the list
ListNext ==
    \E s \in Admin :
        \/ Mount(s)
        \/ \E v \in {"all"} \cup issueTypes : SetIssueTypeFilter(s, v)
        \/ \E v \in {"all"} \cup Statuses : SetStatusFilter(s, v)
        \/ PreviousPage(s)
        \/ NextPage(s)
        \/ RealtimeEvent(s)
        \/ \E i \in 1..MaxPending : FetchComplaintsOk(s, i)
        \/ \E i \in 1..MaxPending : FetchComplaintsErr(s, i)
        \/ FetchStatsOk(s)
        \/ FetchStatsErr(s)

ListSpec == ListInit /\ [][ListNext]_vars

\* AssignSpec: one admin session loading the first page and assigning workers
AssignNext ==
    \E s \in Admin :
        \/ Mount(s)
        \/ \E i \in 1..MaxPending : FetchComplaintsOk(s, i)
        \/ \E i \in 1..MaxPending : FetchComplaintsErr(s, i)
        \/ \E k \in 1..complaintsPerPage : OpenAssignDialog(s, k)
        \/ CloseAssignDialog(s)
        \/ \E v \in DialogStatuses : SetNewStatus(s, v)
        \/ \E v \in NameInputs : SetWorkerName(s, v)
        \/ \E v \in ContactInputs : SetWorkerContact(s, v)
        \/ \E v \in NoteInputs : SetStatusNote(s, v)
        \/ HandleAssignWorker(s)
        \/ \E j \in 1..MaxSubmits : AssignUpdateOk(s, j)
        \/ \E j \in 1..MaxSubmits : AssignUpdateErr(s, j)
        \/ \E j \in 1..MaxSubmits : AssignInsertOk(s, j)
        \/ \E j \in 1..MaxSubmits : AssignInsertErr(s, j)

AssignSpec == Init /\ [][AssignNext]_vars

\* ConcurrentSpec: two admin sessions, each loading the first page, choosing
\* a complaint and a status and submitting, against a store that answers
\* every request without error
ConcurrentNext ==
    \E s \in Sessions :
        \/ Mount(s)
        \/ \E i \in 1..MaxPending : FetchComplaintsOk(s, i)
        \/ \E k \in 1..complaintsPerPage : OpenAssignDialog(s, k)
        \/ \E v \in DialogStatuses : SetNewStatus(s, v)
        \/ HandleAssignWorker(s)
        \/ \E j \in 1..MaxSubmits : AssignUpdateOk(s, j)
        \/ \E j \in 1..MaxSubmits : AssignInsertOk(s, j)

ConcurrentSpec == Init /\ [][ConcurrentNext]_vars

\* StatsSpec: one admin session over a table whose status column is any
\* column of up to MaxStatsRows values, the five-row scenario, or a column
\* longer than a page; the session browses and filters while the store
\* answers its fetches
StatusSpellings == {"Registered", "REGISTERED", "Assigned", "in-progress", "Resolved",
                    "Unknown", Null}

ScenarioColumn == <<"Registered", "Registered", "Assigned", "Resolved", "Unknown">>

LongColumn == <<"RESOLVED", "IN-PROGRESS", "registered", "In Progress", "ASSIGNED",
                "assigned", "resolved">>

StatsColumns ==
    UNION {[1..n -> StatusSpellings] : n \in 0..MaxStatsRows}
        \cup {ScenarioColumn, LongColumn}

\* the table with the status column col
StatsTable(col) ==
    [i \in 1..Len(col) |->
        [id |-> i,
         status |-> col[i],
         issue_type |-> "Electricity",
         assigned_to |-> Null,
         created_at |-> i]]

StatsInit == \E col \in StatsColumns : InitOver(StatsTable(col))

StatsNext ==
    \E s \in Admin :
        \/ Mount(s)
        \/ \E v \in {"all", "Electricity"} : SetIssueTypeFilter(s, v)
        \/ \E v \in {"all", "Resolved"} : SetStatusFilter(s, v)
        \/ PreviousPage(s)
        \/ NextPage(s)
        \/ \E i \in 1..MaxPending : FetchComplaintsOk(s, i)
        \/ FetchStatsOk(s)
        \/ FetchStatsErr(s)

StatsSpec == StatsInit /\ [][StatsNext]_vars

\* GatewaySpec: the function, deployed with any of its variables set,
\* handles one request
GatewayInit ==
    \E e \in SUBSET Credentials : PortalInit(InitTable(0)) /\ GatewayIdle(e)

GatewayNext ==
    \/ \E req \in Requests : Receive(req)
    \/ BodyRead
    \/ \E reply \in ProviderReplies : FetchResolves(reply)
    \/ FetchRejects
    \/ ErrorBodyRead

GatewaySpec == GatewayInit /\ [][GatewayNext]_vars

\* SyncSpec: one admin session that browses, filters by status, assigns, and
\* is pushed the changes of the table, its own among them; the store
\* answers every request without error
SyncNext ==
    \E s \in Admin :
        \/ Mount(s)
        \/ \E v \in {"all", "Assigned"} : SetStatusFilter(s, v)
        \/ PreviousPage(s)
        \/ NextPage(s)
        \/ RealtimeEvent(s)
        \/ \E i \in 1..MaxPending : FetchComplaintsOk(s, i)
        \/ FetchStatsOk(s)
        \/ \E k \in 1..complaintsPerPage : OpenAssignDialog(s, k)
        \/ \E v \in {"In-Progress", "Resolved"} : SetNewStatus(s, v)
        \/ HandleAssignWorker(s)
        \/ \E j \in 1..MaxSubmits : AssignUpdateOk(s, j)
        \/ \E j \in 1..MaxSubmits : AssignInsertOk(s, j)

SyncSpec == Init /\ [][SyncNext]_vars

\* TransitionSpec: two admin sessions and a table whose first complaint has
\* any of the four statuses while the others are closed; each session loads
\* the first page, opens the complaint, may choose a status and a worker,
\* and submits; the store answers every request without error
TransitionTable(st) ==
    [i \in Ids |->
        [id |-> i,
         status |-> IF i = 1 THEN st ELSE "Resolved",
         issue_type |-> "Electricity",
         assigned_to |-> IF i = 1 /\ st = "Registered" THEN Null ELSE "w1",
         created_at |-> CreatedAt(i)]]

TransitionInit == \E st \in Statuses : InitOver(TransitionTable(st))

TransitionNext ==
    \E s \in Sessions :
        \/ Mount(s)
        \/ \E i \in 1..MaxPending : FetchComplaintsOk(s, i)
        \/ \E k \in 1..complaintsPerPage : OpenAssignDialog(s, k)
        \/ \E v \in DialogStatuses : SetNewStatus(s, v)
        \/ \E v \in NameInputs \ {""} : SetWorkerName(s, v)
        \/ HandleAssignWorker(s)
        \/ \E j \in 1..MaxSubmits : AssignUpdateOk(s, j)
        \/ \E j \in 1..MaxSubmits : AssignInsertOk(s, j)

TransitionSpec == TransitionInit /\ [][TransitionNext]_vars

\* LiveSpec: one admin session browsing the list, with a store that answers
\* or fails each fetch. The first effect run always happens, and the store
\* eventually answers the oldest complaint fetch in flight, so every fetch
\* is answered in the end.
StoreAnswers(s) == FetchComplaintsErr(s, 1) \/ FetchComplaintsOk(s, 1)

LiveNext ==
    \E s \in Admin :
        \/ Mount(s)
        \/ \E v \in {"all", "Resolved"} : SetStatusFilter(s, v)
        \/ PreviousPage(s)
        \/ NextPage(s)
        \/ RealtimeEvent(s)
        \/ \E i \in 1..MaxPending : FetchComplaintsOk(s, i)
        \/ \E i \in 1..MaxPending : FetchComplaintsErr(s, i)
        \/ FetchStatsOk(s)
        \/ FetchStatsErr(s)
        \/ \E k \in 1..complaintsPerPage : OpenAssignDialog(s, k)
        \/ CloseAssignDialog(s)

LiveSpec ==
    /\ Init
    /\ [][LiveNext]_vars
    /\ \A s \in Admin : WF_vars(Mount(s)) /\ WF_vars(StoreAnswers(s))

\* ResubmitSpec: one admin session loads the first page, opens the assign
\* dialog before anything was submitted, fills the form and may click
\* "Update Status" up to MaxClicks times; the store answers or fails each
\* write. Every write of a behaviour comes from the one opening of the
\* dialog that was submitted.
ResubmitNext ==
    \E s \in Admin :
        \/ Mount(s)
        \/ \E i \in 1..MaxPending : FetchComplaintsOk(s, i)
        \/ \E k \in 1..complaintsPerPage :
              storeLog = <<>> /\ pendingAssigns[s] = <<>> /\ OpenAssignDialog(s, k)
        \/ \E v \in DialogStatuses : SetNewStatus(s, v)
        \/ \E v \in NameInputs : SetWorkerName(s, v)
        \/ HandleAssignWorkerUpTo(s, MaxClicks)
        \/ \E j \in 1..MaxClicks : AssignUpdateOk(s, j)
        \/ \E j \in 1..MaxClicks : AssignUpdateErr(s, j)
        \/ \E j \in 1..MaxClicks : AssignInsertOk(s, j)
        \/ \E j \in 1..MaxClicks : AssignInsertErr(s, j)

ResubmitSpec == Init /\ [][ResubmitNext]_vars

\* SubscriptionSpec: one admin session mounts, browses, filters, is pushed
\* changes of the table and is unmounted at any moment; the store answers or
\* fails the fetches, also those still in flight at the unmount
SubscriptionNext ==
    \E s \in Admin :
        \/ Mount(s)
        \/ \E v \in {"all"} \cup issueTypes : SetIssueTypeFilter(s, v)
        \/ \E v \in {"all", "Resolved"} : SetStatusFilter(s, v)
        \/ PreviousPage(s)
        \/ NextPage(s)
        \/ RealtimeEvent(s)
        \/ Unmount(s)
        \/ \E i \in 1..MaxPending : FetchComplaintsOk(s, i)
        \/ \E i \in 1..MaxPending : FetchComplaintsErr(s, i)
        \/ FetchStatsOk(s)
        \/ FetchStatsErr(s)

SubscriptionSpec == ListInit /\ [][SubscriptionNext]_vars

\* ------------------------------------------------------------------------
\* The store's write log, read by the properties below
\* ------------------------------------------------------------------------
LogPositions == 1..Len(storeLog)
Updates == {q \in LogPositions : storeLog[q].op = "update"}
Inserts == {q \in LogPositions : storeLog[q].op = "insert"}
OkInserts == {q \in Inserts : storeLog[q].ok}
EntriesOf(inv) == {q \in LogPositions : storeLog[q].inv = inv}
PendingInvs(s) == {pendingAssigns[s][j].inv : j \in 1..Len(pendingAssigns[s])}

\* ------------------------------------------------------------------------
\* C1: an invocation of handleAssignWorker with no complaint selected, or
\* with an empty worker name, worker contact or target status, sends nothing
\* to the store: the complaints table, the audit log, the store's write log
\* and the requests in flight are what they were. With the three fields
\* filled and a complaint selected, an empty note does not stop the request.
\* ------------------------------------------------------------------------
C1_SomethingMissing(s) ==
    \/ selectedComplaint[s] = NoComplaint
    \/ workerName[s] = ""
    \/ workerContact[s] = ""
    \/ newStatus[s] = ""

C1_Step ==
    \A s \in Sessions :
        HandleAssignWorker(s) =>
            IF C1_SomethingMissing(s)
            THEN UNCHANGED <<table, audit, storeLog, pendingAssigns>>
            ELSE /\ Len(pendingAssigns'[s]) = Len(pendingAssigns[s]) + 1
                 /\ pendingAssigns'[s][Len(pendingAssigns'[s])].note = statusNote[s]

\* C1: every step satisfies C1_Step: a submit with something missing sends
\* nothing to the store, a complete one is sent whatever the note
C1_RejectedSubmitWritesNothing == [][C1_Step]_vars

\* a submit was rejected while only the contact was missing
C1_Witness ==
    /\ toast["A"] = "Please fill all fields"
    /\ FormShown("A")
    /\ workerContact["A"] = ""
    /\ workerName["A"] # ""
    /\ newStatus["A"] # ""
    /\ storeLog = <<>>
    /\ pendingAssigns["A"] = <<>>

\* ------------------------------------------------------------------------
\* C2: an invocation that passes validation carries the selected complaint's
\* id, the chosen status and the worker name; its update changes status and
\* assigned_to of that complaint and nothing else in the table; its insert
\* appends one record with that complaint id, status and worker name; and an
\* invocation whose insert succeeded has exactly one update and one insert in
\* the store's write log, on the same complaint with the same values.
\* ------------------------------------------------------------------------
C2_Step ==
    \A s \in Sessions :
        /\ (HandleAssignWorker(s) /\ pendingAssigns'[s] # pendingAssigns[s]) =>
              LET a == pendingAssigns'[s][Len(pendingAssigns'[s])]
              IN  /\ Len(pendingAssigns'[s]) = Len(pendingAssigns[s]) + 1
                  /\ a.complaint_id = selectedComplaint[s].id
                  /\ a.status = newStatus[s]
                  /\ a.assigned_to = workerName[s]
                  /\ UNCHANGED <<table, audit>>
        /\ \A j \in 1..Len(pendingAssigns[s]) :
              LET a == pendingAssigns[s][j]
              IN  /\ AssignUpdateOk(s, j) =>
                        /\ audit' = audit
                        /\ \A i \in Ids :
                              IF i = a.complaint_id
                              THEN table'[i] = [id |-> i, status |-> a.status,
                                                issue_type |-> table[i].issue_type,
                                                assigned_to |-> a.assigned_to,
                                                created_at |-> table[i].created_at]
                              ELSE table'[i] = table[i]
                  /\ AssignInsertOk(s, j) =>
                        /\ table' = table
                        /\ Len(audit') = Len(audit) + 1
                        /\ SubSeq(audit', 1, Len(audit)) = audit
                        /\ audit'[Len(audit')].complaint_id = a.complaint_id
                        /\ audit'[Len(audit')].status = a.status
                        /\ audit'[Len(audit')].assigned_to = a.assigned_to

C2_Log ==
    /\ Len(audit) = Cardinality(OkInserts)
    /\ \A q \in OkInserts :
          /\ Cardinality(EntriesOf(storeLog[q].inv) \cap Inserts) = 1
          /\ Cardinality(EntriesOf(storeLog[q].inv) \cap Updates) = 1
          /\ \A p \in EntriesOf(storeLog[q].inv) \cap Updates :
                /\ p < q
                /\ storeLog[p].ok
                /\ storeLog[p].complaint_id = storeLog[q].complaint_id
                /\ storeLog[p].status = storeLog[q].status
                /\ storeLog[p].assigned_to = storeLog[q].assigned_to

\* C2: the write log always satisfies C2_Log and every step satisfies
\* C2_Step: one update of the selected complaint, one matching audit record
C2_OneUpdateOneRecord == [](C2_Log) /\ [][C2_Step]_vars

\* an invocation went through: one audit record, and the complaint shows the
\* worker the admin typed
C2_Witness ==
    /\ Len(storeLog) = 2
    /\ storeLog[2].op = "insert" /\ storeLog[2].ok
    /\ Len(audit) = 1
    /\ audit[1].assigned_to = "w2"
    /\ table[audit[1].complaint_id].assigned_to = "w2"
    /\ table[audit[1].complaint_id].status = audit[1].status

\* ------------------------------------------------------------------------
\* C3: the store sees an insert into the audit log only from an invocation
\* whose update it answered without error before: an invocation whose update
\* failed sends nothing more and adds no audit record.
\* ------------------------------------------------------------------------
C3_NoInsertAfterFailedUpdate ==
    /\ \A q \in Inserts :
          \E p \in Updates : p < q /\ storeLog[p].inv = storeLog[q].inv /\ storeLog[p].ok
    /\ \A p \in Updates :
          ~storeLog[p].ok =>
              /\ EntriesOf(storeLog[p].inv) = {p}
              /\ \A s \in Sessions : storeLog[p].inv \notin PendingInvs(s)
    /\ \A s \in Sessions : \A j \in 1..Len(pendingAssigns[s]) :
          pendingAssigns[s][j].pc = "insert" =>
              \E p \in Updates : storeLog[p].inv = pendingAssigns[s][j].inv /\ storeLog[p].ok
    /\ Len(audit) <= Cardinality({p \in Updates : storeLog[p].ok})

\* an update failed and the invocation ended there
C3_Witness ==
    /\ Len(storeLog) = 1
    /\ storeLog[1].op = "update" /\ ~storeLog[1].ok
    /\ toast["A"] = "Error assigning worker"
    /\ pendingAssigns["A"] = <<>>
    /\ audit = <<>>

\* ------------------------------------------------------------------------
\* C4: when the insert of an invocation fails after its update succeeded,
\* that step leaves the table and the audit log alone and ends the
\* invocation (no second insert, no write undoing the update); as long as no
\* later update of that complaint succeeds, the complaint shows the status
\* and worker of the unaudited update, and the audit log holds one record per
\* successful insert only.
\* ------------------------------------------------------------------------
C4_Step ==
    \A s \in Sessions : \A j \in 1..Len(pendingAssigns[s]) :
        AssignInsertErr(s, j) =>
            /\ table' = table
            /\ audit' = audit
            /\ Len(pendingAssigns'[s]) = Len(pendingAssigns[s]) - 1
            /\ pendingAssigns[s][j].inv \notin PendingInvs(s)'

C4_Log ==
    /\ Len(audit) = Cardinality(OkInserts)
    /\ \A q \in Inserts \ OkInserts :
          /\ Cardinality(EntriesOf(storeLog[q].inv)) = 2
          /\ \A s \in Sessions : storeLog[q].inv \notin PendingInvs(s)
          /\ (\A p \in Updates :
                 (storeLog[p].ok /\ storeLog[p].complaint_id = storeLog[q].complaint_id)
                     => p < q /\ storeLog[p].inv = storeLog[q].inv)
              => /\ table[storeLog[q].complaint_id].status = storeLog[q].status
                 /\ table[storeLog[q].complaint_id].assigned_to = storeLog[q].assigned_to

\* C4: the write log always satisfies C4_Log and every step satisfies
\* C4_Step: a failed insert leaves the complaint updated and unaudited, and
\* nothing is sent to repair it
C4_UpdatedButUnaudited == [](C4_Log) /\ [][C4_Step]_vars

\* the complaint was updated, the insert failed, and nothing is in flight
C4_Witness ==
    /\ Len(storeLog) = 2
    /\ storeLog[2].op = "insert" /\ ~storeLog[2].ok
    /\ table[storeLog[2].complaint_id].status = storeLog[2].status
    /\ table # InitTable(0)
    /\ audit = <<>>
    /\ pendingAssigns["A"] = <<>>

\* ------------------------------------------------------------------------
\* C5: a step of either filter Select (whatever item is chosen, 'all'
\* included), and any step that changes the filters, leaves currentPage at 1
\* and issues in that same step one fetch, for page 1 under the new filters.
\* ------------------------------------------------------------------------
C5_FilterStep(s) ==
    \/ \E v \in {"all"} \cup issueTypes : SetIssueTypeFilter(s, v)
    \/ \E v \in {"all"} \cup Statuses : SetStatusFilter(s, v)
    \/ filters'[s] # filters[s]

C5_Step ==
    \A s \in Sessions :
        C5_FilterStep(s) =>
            /\ currentPage'[s] = 1
            /\ Len(pendingFetches'[s]) = Len(pendingFetches[s]) + 1
            /\ SubSeq(pendingFetches'[s], 1, Len(pendingFetches[s])) = pendingFetches[s]
            /\ pendingFetches'[s][Len(pendingFetches'[s])] =
                  [page |-> 1, status |-> filters'[s].status, issueType |-> filters'[s].issueType]

\* C5: every step satisfies C5_Step: a filter change puts the page at 1 and
\* fetches page 1 under the new filters
C5_FilterChangeResetsPage == [][C5_Step]_vars

\* on page 2 (its fetch still in flight) a status filter was chosen
C5_Witness ==
    /\ Len(pendingFetches["A"]) = 2
    /\ pendingFetches["A"][1] = [page |-> 2, status |-> "", issueType |-> ""]
    /\ pendingFetches["A"][2] = [page |-> 1, status |-> "Resolved", issueType |-> ""]
    /\ currentPage["A"] = 1
    /\ filters["A"].status = "Resolved"

\* ------------------------------------------------------------------------
\* C6: in every state Previous is disabled exactly when currentPage = 1 and
\* Next exactly when currentPage * pageSize >= totalComplaints; a Previous
\* step is taken only from a page other than 1, a Next step only while
\* currentPage * pageSize < totalComplaints, and the page never drops below 1.
\* ------------------------------------------------------------------------
C6_State ==
    \A s \in Sessions :
        /\ PreviousDisabled(s) <=> (currentPage[s] = 1)
        /\ NextDisabled(s) <=> (currentPage[s] * complaintsPerPage >= totalComplaints[s])
        /\ currentPage[s] >= 1

C6_Step ==
    \A s \in Sessions :
        /\ PreviousPage(s) => currentPage[s] # 1 /\ currentPage'[s] = currentPage[s] - 1
        /\ NextPage(s) =>
              /\ currentPage[s] * complaintsPerPage < totalComplaints[s]
              /\ currentPage'[s] = currentPage[s] + 1

\* C6: every state satisfies C6_State and every step C6_Step: Previous is
\* disabled iff currentPage = 1, Next iff currentPage * pageSize >= total
C6_PaginationControls == [](C6_State) /\ [][C6_Step]_vars

\* the held total is exactly one full page: Next is disabled at the boundary
C6_Witness ==
    /\ currentPage["A"] = 1
    /\ totalComplaints["A"] = complaintsPerPage
    /\ Len(complaints["A"]) = complaintsPerPage
    /\ NextDisabled("A")
    /\ PreviousDisabled("A")

\* ------------------------------------------------------------------------
\* C7: whenever the store answers a complaint fetch, the rows held afterwards
\* number at most pageSize, and the total held afterwards is the number of
\* table rows that satisfy the request's filters; the same query for the
\* pages up to the one after the requested page, on the unchanged table,
\* reports the same total and at most pageSize rows.
\* ------------------------------------------------------------------------
\* the ids of the rows satisfying the filters of a request
C7_MatchingIds(req) ==
    {r \in Ids : /\ (req.status = "" \/ table[r].status = req.status)
                 /\ (req.issueType = "" \/ table[r].issue_type = req.issueType)}

C7_Step ==
    \A s \in Sessions : \A i \in 1..Len(pendingFetches[s]) :
        FetchComplaintsOk(s, i) =>
            LET req == pendingFetches[s][i]
            IN  /\ Len(complaints'[s]) <= complaintsPerPage
                /\ totalComplaints'[s] = Cardinality(C7_MatchingIds(req))
                /\ \A p \in 1..(req.page + 1) :
                      /\ ComplaintQuery(table, [status |-> req.status, issueType |-> req.issueType], p).count
                            = totalComplaints'[s]
                      /\ Len(ComplaintQuery(table, [status |-> req.status, issueType |-> req.issueType], p).data)
                            <= complaintsPerPage

\* C7: every step satisfies C7_Step: at most pageSize rows, and a total that
\* is the number of matching rows, whatever the page
C7_PageSizeAndTotal == [][C7_Step]_vars

\* a full page is held while more rows match than fit on it
C7_Witness ==
    /\ ~loading["A"]
    /\ Len(complaints["A"]) = complaintsPerPage
    /\ totalComplaints["A"] > complaintsPerPage

\* ------------------------------------------------------------------------
\* C8: whenever the store answers a complaint fetch for page p, the rows held
\* afterwards are current table rows that satisfy the request's filters, the
\* k-th of them has exactly (p-1)*pageSize + k - 1 matching rows created
\* after it, and no matching row whose rank lies in
\* (p-1)*pageSize .. p*pageSize-1 is left out.
\* ------------------------------------------------------------------------
\* matching rows created after row r: its 0-based place in descending order
C8_Rank(req, r) ==
    Cardinality({q \in C7_MatchingIds(req) : table[q].created_at > table[r].created_at})

C8_Step ==
    \A s \in Sessions : \A i \in 1..Len(pendingFetches[s]) :
        FetchComplaintsOk(s, i) =>
            LET req == pendingFetches[s][i]
                rows == complaints'[s]
                first == (req.page - 1) * complaintsPerPage
                last == req.page * complaintsPerPage - 1
                wanted == {r \in C7_MatchingIds(req) :
                              first <= C8_Rank(req, r) /\ C8_Rank(req, r) <= last}
            IN  /\ Len(rows) = Cardinality(wanted)
                /\ \A k \in 1..Len(rows) :
                      /\ rows[k].id \in wanted
                      /\ rows[k] = table[rows[k].id]
                      /\ C8_Rank(req, rows[k].id) = first + k - 1

\* C8: every step satisfies C8_Step: the rows held are positions
\* (p-1)*pageSize .. p*pageSize-1 of the matching rows, newest first
C8_RowsAreThePage == [][C8_Step]_vars

\* the second page of the unfiltered list is held: the one oldest complaint
C8_Witness ==
    /\ ~loading["A"]
    /\ pendingFetches["A"] = <<>>
    /\ currentPage["A"] = 2
    /\ filters["A"] = [status |-> "", issueType |-> ""]
    /\ Len(complaints["A"]) = 1
    /\ \A r \in Ids : table[r].created_at >= complaints["A"][1].created_at

\* ------------------------------------------------------------------------
\* C9: a step in which a complaint fetch fails leaves the held list, the
\* held total and the counters as they were; a step in which a stats fetch
\* fails leaves the counters (and the list and total) as they were.
\* ------------------------------------------------------------------------
C9_Step ==
    \A s \in Sessions :
        /\ \A i \in 1..Len(pendingFetches[s]) :
              FetchComplaintsErr(s, i) =>
                  /\ complaints'[s] = complaints[s]
                  /\ totalComplaints'[s] = totalComplaints[s]
                  /\ stats'[s] = stats[s]
        /\ FetchStatsErr(s) =>
              /\ stats'[s] = stats[s]
              /\ complaints'[s] = complaints[s]
              /\ totalComplaints'[s] = totalComplaints[s]

\* C9: every step satisfies C9_Step: a failed fetch leaves the held list,
\* total and counters as they were
C9_FailedFetchKeepsState == [][C9_Step]_vars

\* the fetch for the Resolved filter failed: the unfiltered page fetched
\* before is still held, with its total and the counters
C9_Witness ==
    /\ toast["A"] = "Error fetching complaints"
    /\ ~loading["A"]
    /\ pendingFetches["A"] = <<>>
    /\ pendingStats["A"] = 0
    /\ filters["A"].status = "Resolved"
    /\ totalComplaints["A"] = NumComplaints
    /\ \E k \in 1..Len(complaints["A"]) : complaints["A"][k].status # "Resolved"
    /\ stats["A"].total = NumComplaints

\* ------------------------------------------------------------------------
\* C10: with two sessions submitting against a store that answers every
\* write without error, in every reachable state each complaint that was
\* updated shows the status and worker of the update the store applied last,
\* and the audit log holds one record per answered insert, in the order the
\* store answered them, each with its invocation's complaint, status and
\* worker: no session's record is missing or overwritten.
\* ------------------------------------------------------------------------
C10_OkUpdatesOf(c) == {p \in Updates : storeLog[p].ok /\ storeLog[p].complaint_id = c}

C10_LastUpdateOf(c) == CHOOSE p \in C10_OkUpdatesOf(c) : \A q \in C10_OkUpdatesOf(c) : q <= p

\* C10: in every state the last applied update wins on each complaint and
\* the audit log holds the record of every answered insert
C10_LastWriterWinsBothAudited ==
    /\ \A c \in Ids :
          C10_OkUpdatesOf(c) # {} =>
              /\ table[c].status = storeLog[C10_LastUpdateOf(c)].status
              /\ table[c].assigned_to = storeLog[C10_LastUpdateOf(c)].assigned_to
    /\ Len(audit) = Cardinality(OkInserts)
    /\ \A q \in OkInserts :
          LET k == Cardinality({p \in OkInserts : p <= q})
          IN  /\ audit[k].complaint_id = storeLog[q].complaint_id
              /\ audit[k].status = storeLog[q].status
              /\ audit[k].assigned_to = storeLog[q].assigned_to

\* A and B updated the same complaint to different statuses, B last; B's
\* record was inserted before A's; the complaint shows B's status
C10_Witness ==
    /\ Len(storeLog) = 4
    /\ storeLog[1].op = "update" /\ storeLog[1].by = "A"
    /\ storeLog[2].op = "update" /\ storeLog[2].by = "B"
    /\ storeLog[3].op = "insert" /\ storeLog[3].by = "B"
    /\ storeLog[4].op = "insert" /\ storeLog[4].by = "A"
    /\ storeLog[1].complaint_id = storeLog[2].complaint_id
    /\ storeLog[1].status # storeLog[2].status
    /\ table[storeLog[2].complaint_id].status = storeLog[2].status
    /\ Len(audit) = 2
    /\ audit[1].status = storeLog[2].status
    /\ audit[2].status = storeLog[1].status

\* ------------------------------------------------------------------------
\* C11: the audit log (complaint_status_updates) is append-only. A step
\* changes it only when the store answers the insert of an invocation of
\* handleAssignWorker (step 2 of the workflow), and then by one record added
\* at the end; every record the log held is still there, unchanged and in
\* place, so the log after any step extends the log before it.
\* ------------------------------------------------------------------------
C11_IsInsertStep == \E s \in Sessions : \E j \in 1..MaxSubmits : AssignInsertOk(s, j)

C11_Step ==
    /\ Len(audit') >= Len(audit)
    /\ SubSeq(audit', 1, Len(audit)) = audit
    /\ audit' # audit =>
          /\ C11_IsInsertStep
          /\ Len(audit') = Len(audit) + 1

\* C11: every step leaves the audit log alone or appends one record to it,
\* and only the answered insert of the workflow appends
C11_AuditAppendOnly == [][C11_Step]_vars

\* two records of the same complaint, written by two sessions, are both held
C11_Witness ==
    /\ Len(audit) = 2
    /\ audit[1].complaint_id = audit[2].complaint_id
    /\ audit[1].status # audit[2].status
    /\ \A s \in Sessions : pendingAssigns[s] = <<>>

\* ------------------------------------------------------------------------
\* C12: whatever the status column of the table, whatever the filters and
\* the page of the session, an answered fetchStats holds pending = the
\* number of rows whose status is 'Registered' in any letter case,
\* inProgress = the number whose status is 'Assigned' or 'In-Progress' in
\* any letter case, resolved = the number whose status is 'Resolved' in any
\* letter case, and total = the number of rows; a row whose status is none
\* of these, or null, adds to total only. The column Registered, Registered,
\* Assigned, Resolved, Unknown gives 2, 1, 1 and 5.
\* ------------------------------------------------------------------------
\* the spellings that differ from a status in letter case only
C12_AnyCase(word) ==
    CASE word = "Registered" -> {"Registered", "registered", "REGISTERED"}
      [] word = "Assigned" -> {"Assigned", "assigned", "ASSIGNED"}
      [] word = "In-Progress" -> {"In-Progress", "in-progress", "IN-PROGRESS"}
      [] word = "Resolved" -> {"Resolved", "resolved", "RESOLVED"}

C12_Rows(spellings) == Cardinality({i \in DOMAIN table : table[i].status \in spellings})

C12_Expected ==
    [pending |-> C12_Rows(C12_AnyCase("Registered")),
     inProgress |-> C12_Rows(C12_AnyCase("Assigned") \cup C12_AnyCase("In-Progress")),
     resolved |-> C12_Rows(C12_AnyCase("Resolved")),
     total |-> Cardinality(DOMAIN table)]

C12_Step ==
    \A s \in Admin :
        FetchStatsOk(s) => stats'[s] = C12_Expected

\* C12: every answered fetchStats holds the four counts of the whole table
C12_StatsCountKnownStatuses == [][C12_Step]_vars

\* the scenario column, read while the list is filtered to Resolved and
\* holds one row of one matching: the counters are 2, 1, 1 and 5
C12_Witness ==
    /\ StatusColumn(table) = ScenarioColumn
    /\ filters["A"].status = "Resolved"
    /\ totalComplaints["A"] = 1
    /\ Len(complaints["A"]) = 1
    /\ stats["A"] = [pending |-> 2, inProgress |-> 1, resolved |-> 1, total |-> 5]

\* ------------------------------------------------------------------------
\* C13: in every state the counters a session holds satisfy
\* pending + inProgress + resolved <= total, and the counters an answered
\* fetchStats leaves have pending + inProgress + resolved = total exactly
\* when every row it read has one of the four statuses, in any letter case.
\* ------------------------------------------------------------------------
C13_Counted(st) == st.pending + st.inProgress + st.resolved

C13_KnownSpellings ==
    C12_AnyCase("Registered") \cup C12_AnyCase("Assigned")
        \cup C12_AnyCase("In-Progress") \cup C12_AnyCase("Resolved")

C13_State == \A s \in Admin : C13_Counted(stats[s]) <= stats[s].total

C13_Step ==
    \A s \in Admin :
        FetchStatsOk(s) =>
            (C13_Counted(stats'[s]) = stats'[s].total
                <=> \A i \in DOMAIN table : table[i].status \in C13_KnownSpellings)

\* C13: the three counters never exceed total, and reach it exactly when
\* every row read had a known status
C13_CountersWithinTotal == [](C13_State) /\ [][C13_Step]_vars

\* three rows were read, one with a null status and one with a status that
\* is none of the four: the three counters add up to 1, total is 3
C13_Witness ==
    /\ Cardinality(DOMAIN table) = 3
    /\ \E i \in DOMAIN table : table[i].status = Null
    /\ \E i \in DOMAIN table : table[i].status = "Unknown"
    /\ stats["A"].total = 3
    /\ C13_Counted(stats["A"]) = 1

\* ------------------------------------------------------------------------
\* C14: a request that is not a preflight and whose body parses passes the
\* validation of the gateway (its handler goes on to the provider call or to
\* the fallback log) exactly when the body has a phone, a username and a
\* password and the phone is '+91' followed by exactly 10 digits and nothing
\* else. For a request that does not, the handler returns an error response
\* having made no provider call and written no fallback log line, and none
\* is made or written afterwards.
\* ------------------------------------------------------------------------
C14_Present(body) ==
    /\ body.has = {"phone", "username", "password"}
    /\ Len(body.phone) > 0
    /\ body.username # ""
    /\ body.password # ""

C14_WellFormedPhone(phone) ==
    /\ Len(phone) > 3
    /\ SubSeq(phone, 1, 3) = <<"+", "9", "1">>
    /\ Len(SubSeq(phone, 4, Len(phone))) = 10
    /\ {phone[i] : i \in 4..Len(phone)} \subseteq Digits

C14_Valid(req) ==
    req.parsable /\ C14_Present(req.body) /\ C14_WellFormedPhone(req.body.phone)

C14_FallbackLogged == \E i \in 1..Len(consoleLog) : consoleLog[i].level = "log"

C14_State ==
    (request.method = "POST" /\ ~C14_Valid(request)) =>
        /\ providerCalls = <<>>
        /\ ~C14_FallbackLogged

C14_Step ==
    (BodyRead /\ request.parsable) =>
        /\ C14_Valid(request) <=>
              \/ handlerAt' = "fetch" /\ Len(providerCalls') = 1
              \/ handlerAt' = "returned" /\ C14_FallbackLogged'
        /\ ~C14_Valid(request) =>
              /\ handlerAt' = "returned"
              /\ Len(responses') = 1
              /\ responses'[1].status = 400
              /\ ~responses'[1].success

\* C14: validation passes exactly for a complete body with a well-formed
\* phone, and a rejected request never reaches the provider or the fallback
C14_ValidationGatesDelivery == [](C14_State) /\ [][C14_Step]_vars

\* a complete body whose phone has 11 digits, sent to a function with all
\* credentials set, was answered 400 and nothing was sent
C14_Witness ==
    /\ request.method = "POST"
    /\ request.body.has = FieldNames
    /\ request.body.username = "u1"
    /\ request.body.password = "p1"
    /\ request.body.phone = <<"+", "9", "1">> \o DigitRun(11)
    /\ env = Credentials
    /\ handlerAt = "returned"
    /\ responses = <<ErrorResponse(<<"Invalid phone number format. Expected '+91' followed by 10 digits.">>)>>
    /\ providerCalls = <<>>

\* ------------------------------------------------------------------------
\* C15: when one of the three provider credentials is not set, the gateway
\* never calls the provider; and once it has handled a valid request, it
\* has written the fallback lines to the console, one holding the username
\* and one holding the password of the request, and has returned one
\* response, of status 200 with success: true.
\* ------------------------------------------------------------------------
C15_Logged(value) ==
    \E i \in 1..Len(consoleLog) :
        /\ consoleLog[i].level = "log"
        /\ \E k \in 1..Len(consoleLog[i].parts) : consoleLog[i].parts[k] = value

C15_ValidRequest ==
    /\ request.method = "POST"
    /\ request.parsable
    /\ ~MissingParameters(request.body)
    /\ MatchesPhonePattern(request.body.phone)

\* C15: without the full set of credentials a valid request is logged, not
\* sent, and answered 200 success
C15_FallbackLogsCredentials ==
    env # Credentials =>
        /\ providerCalls = <<>>
        /\ (C15_ValidRequest /\ handlerAt = "returned") =>
              /\ C15_Logged(request.body.username)
              /\ C15_Logged(request.body.password)
              /\ Len(responses) = 1
              /\ responses[1].status = 200
              /\ responses[1].success

\* two of the three credentials are set; the valid request was answered
\* 200 success with its password on the console
C15_Witness ==
    /\ env = {"TWILIO_ACCOUNT_SID", "TWILIO_AUTH_TOKEN"}
    /\ C15_ValidRequest
    /\ handlerAt = "returned"
    /\ providerCalls = <<>>
    /\ responses = <<SuccessResponse>>
    /\ consoleLog[5] = LogLine("log", <<"Your password: ", "p1">>)

\* ------------------------------------------------------------------------
\* C16: the handler of a request that is not a preflight returns exactly
\* one response. When the request fails (its body is not JSON, a field is
\* missing, the phone is malformed, or the provider does not answer with a
\* success) the response has status 400, success: false and an error
\* message that is not empty, and that holds the provider's message when
\* the provider's error body has one. The response of status 200 with
\* success: true is returned only after the provider answered with a
\* success or after the fallback lines were written.
\* ------------------------------------------------------------------------
C16_ProviderAccepted == providerReply.settled = "response" /\ providerReply.ok

C16_FallbackWritten ==
    \E i \in 1..Len(consoleLog) :
        consoleLog[i] = LogLine("log", <<"Your username: ", request.body.username>>)

C16_Failed ==
    \/ ~request.parsable
    \/ MissingParameters(request.body)
    \/ ~MatchesPhonePattern(request.body.phone)
    \/ providerReply.settled = "rejected"
    \/ providerReply.settled = "response" /\ ~providerReply.ok

C16_NonEmpty(text) == Len(text) > 0 /\ \A k \in 1..Len(text) : text[k] # ""

C16_Returned ==
    /\ Len(responses) = 1
    /\ C16_Failed =>
          /\ responses[1].status = 400
          /\ responses[1].json
          /\ ~responses[1].success
          /\ C16_NonEmpty(responses[1].text)
          /\ (providerReply.parsable /\ providerReply.message # "") =>
                \E k \in 1..Len(responses[1].text) : responses[1].text[k] = providerReply.message
    /\ (responses[1].status = 200 /\ responses[1].success) =>
          /\ ~C16_Failed
          /\ C16_ProviderAccepted \/ C16_FallbackWritten

C17_Trigger(s) ==
    \/ Mount(s)
    \/ \E v \in {"all"} \cup issueTypes : SetIssueTypeFilter(s, v)
    \/ \E v \in {"all"} \cup Statuses : SetStatusFilter(s, v)
    \/ PreviousPage(s)
    \/ NextPage(s)
    \/ RealtimeEvent(s)

C17_Step ==
    \A s \in Admin :
        /\ C17_Trigger(s) =>
              /\ loading'[s]
              /\ pendingFetches'[s] =
                    Append(pendingFetches[s],
                           [page |-> currentPage'[s], status |-> filters'[s].status,
                            issueType |-> filters'[s].issueType])
              /\ pendingStats'[s] = pendingStats[s] + 1
        /\ RealtimeEvent(s) =>
              UNCHANGED <<complaints, totalComplaints, stats, filters, currentPage, table>>

\* C17: every trigger starts the two fetches for the current page and
\* filters, and a pushed change only does that
C17_TriggersRefetchCurrent == [][C17_Step]_vars

\* the session filtered by Assigned, assigned a worker and saw the success
\* toast; the table no longer holds what the list shows, and the push that
\* followed has a fetch for page 1 of Assigned in flight
C17_Witness ==
    /\ filters["A"].status = "Assigned"
    /\ toast["A"] = "Worker Assigned Successfully"
    /\ Len(storeLog) = 2
    /\ \E k \in 1..Len(complaints["A"]) :
          complaints["A"][k].status # table[complaints["A"][k].id].status
    /\ loading["A"]
    /\ pendingFetches["A"] = <<[page |-> 1, status |-> "Assigned", issueType |-> ""]>>
    /\ pendingStats["A"] = 1

\* ------------------------------------------------------------------------
\* C18: complaint fetches in flight are independent. A trigger adds its
\* fetch to the ones in flight and leaves those as they are, even when one
\* of them asks for the same page and filters; whichever of them the store
\* answers, whatever the order they were issued in, the answered fetch puts
\* its own rows and count in the held list and total and leaves the others
\* in flight. So the list held once all have been answered is that
\* of the fetch answered last, which can be one for filters the session
\* has already left.
\* ------------------------------------------------------------------------
C18_Answer(req) ==
    ComplaintQuery(table, [status |-> req.status, issueType |-> req.issueType], req.page)

C18_Step ==
    \A s \in Admin :
        /\ C17_Trigger(s) =>
              /\ Len(pendingFetches'[s]) = Len(pendingFetches[s]) + 1
              /\ SubSeq(pendingFetches'[s], 1, Len(pendingFetches[s])) = pendingFetches[s]
        /\ \A i \in 1..Len(pendingFetches[s]) :
              FetchComplaintsOk(s, i) =>
                  /\ complaints'[s] = C18_Answer(pendingFetches[s][i]).data
                  /\ totalComplaints'[s] = C18_Answer(pendingFetches[s][i]).count
                  /\ pendingFetches'[s] = RemoveAt(pendingFetches[s], i)
        /\ Len(pendingFetches'[s]) >= Len(pendingFetches[s]) - 1

\* C18: nothing in flight is cancelled or merged, and whichever fetch is
\* answered, first issued or not, decides the held list
C18_LastResolvedWins == [][C18_Step]_vars

\* the session filters by Resolved and nothing is in flight or has failed,
\* yet it holds the unfiltered first page and total: the fetch issued at
\* mount was answered after the fetch issued by the filter change
C18_Witness ==
    /\ filters["A"] = [status |-> "Resolved", issueType |-> ""]
    /\ currentPage["A"] = 1
    /\ pendingFetches["A"] = <<>>
    /\ toast["A"] = ""
    /\ totalComplaints["A"] = NumComplaints
    /\ Len(complaints["A"]) = complaintsPerPage
    /\ \E k \in 1..Len(complaints["A"]) : complaints["A"][k].status # "Resolved"

\* ------------------------------------------------------------------------
\* C19: the order Registered, Assigned, In-Progress, Resolved is not
\* enforced. Whatever status the store holds for a complaint, the update of
\* a submitted assignment can be applied, and applying it leaves the
\* complaint with the status that was submitted, be it an earlier one: a
\* Resolved complaint can be moved back, through a session whose list still
\* shows it open.
\* ------------------------------------------------------------------------
C19_Applies(s, j) ==
    ENABLED (/\ AssignUpdateOk(s, j)
             /\ table'[pendingAssigns[s][j].complaint_id].status = pendingAssigns[s][j].status)

\* C19: every update in flight can be applied as submitted, whatever the
\* stored status of its complaint
C19_AnyStatusFromAny ==
    \A s \in Sessions :
        \A j \in 1..Len(pendingAssigns[s]) :
            pendingAssigns[s][j].pc = "update" => C19_Applies(s, j)

\* session A resolved a complaint; session B, whose list showed it as
\* Registered, then set it back to Registered
C19_Witness ==
    /\ Len(storeLog) >= 2
    /\ storeLog[1].op = "update" /\ storeLog[1].by = "A" /\ storeLog[1].ok
    /\ storeLog[1].status = "Resolved"
    /\ storeLog[2].op = "update" /\ storeLog[2].by = "B" /\ storeLog[2].ok
    /\ storeLog[2].complaint_id = storeLog[1].complaint_id
    /\ storeLog[2].status = "Registered"
    /\ table[storeLog[2].complaint_id].status = "Registered"

\* ------------------------------------------------------------------------
\* C20: with a store that eventually answers, a session never stays in
\* the loading phase: from every state where loading is set a state where
\* it is cleared is reached. No complaint fetch stays in flight for ever:
\* again and again nothing is in flight, or else again and again a fetch
\* completes, with rows or with an error. A failure blocks nothing:
\* afterwards the triggers fire again.
\* ------------------------------------------------------------------------
C20_Completion(s) ==
    \E i \in 1..MaxPending : FetchComplaintsOk(s, i) \/ FetchComplaintsErr(s, i)

\* C20: loading is always cleared again and a fetch in flight always sees a
\* completion
C20_FetchesComplete ==
    \A s \in Admin :
        /\ loading[s] ~> ~loading[s]
        /\ ([]<>(pendingFetches[s] = <<>>) \/ []<><<C20_Completion(s)>>_vars)

\* a fetch failed, and a trigger fired afterwards: loading is set again and
\* its fetch, for page 1 of Resolved, is the one in flight
C20_Witness ==
    /\ toast["A"] = "Error fetching complaints"
    /\ loading["A"]
    /\ filters["A"].status = "Resolved"
    /\ pendingFetches["A"] = <<[page |-> 1, status |-> "Resolved", issueType |-> ""]>>

\* ------------------------------------------------------------------------
\* C21: whenever a complaint fetch of the session is still in flight its
\* loading flag is true; loading becomes false only when no complaint fetch
\* remains outstanding. (A state with loading false is a state without a
\* fetch in flight, so each step that clears loading answers the last one.)
\* fetchComplaints keeps no count of its calls: the finally block of
\* whichever call settles first runs setLoading(false).
\* ------------------------------------------------------------------------
C21_LoadingWhileInFlight ==
    \A s \in Admin : pendingFetches[s] # <<>> => loading[s]

\* ------------------------------------------------------------------------
\* C22: while an assignment submission of a session is in flight (its
\* validation passed, its two writes are not both done), a second
\* submission cannot start, so one opening of the assign dialog results in
\* at most one complaint update and at most one appended
\* StatusUpdateRecord. Under ResubmitSpec every write belongs to one
\* opening of the dialog.
\* ------------------------------------------------------------------------
C22_UpdatesBy(s) == {q \in Updates : storeLog[q].by = s}

C22_RecordsBy(s) == {q \in OkInserts : storeLog[q].by = s}

C22_OneSubmissionPerOpening ==
    \A s \in Admin :
        /\ Len(pendingAssigns[s]) <= 1
        /\ Cardinality(C22_UpdatesBy(s)) <= 1
        /\ Cardinality(C22_RecordsBy(s)) <= 1

\* the double click taken to its end: one opening of the dialog has updated
\* the complaint twice and appended two audit records
C22_TwoRecordsOfOneOpening ==
    \E s \in Admin :
        /\ Cardinality(C22_UpdatesBy(s)) = 2
        /\ Cardinality(C22_RecordsBy(s)) = 2
        /\ Len(audit) = 2
        /\ audit[1] = audit[2]

\* ------------------------------------------------------------------------
\* C23: in every state where no complaint fetch of the session is in
\* flight, currentPage lies between 1 and
\* max(1, ceil(totalComplaints / complaintsPerPage)): whatever Next,
\* Previous, filter changes and realtime events came before, the session
\* does not rest on a page below 1 or past the last page of the result it
\* holds.
\* ------------------------------------------------------------------------
\* Math.ceil(totalComplaints / complaintsPerPage), as the page footer shows
C23_PageCount(s) == (totalComplaints[s] + complaintsPerPage - 1) \div complaintsPerPage

C23_LastPage(s) == IF C23_PageCount(s) > 1 THEN C23_PageCount(s) ELSE 1

C23_PageWithinResult ==
    \A s \in Admin :
        pendingFetches[s] = <<>> => currentPage[s] \in 1..C23_LastPage(s)

\* ------------------------------------------------------------------------
\* C24: a session holds at most one realtime channel on the complaints
\* table at every moment. Each filter or page change leaves exactly the
\* channel of the new render (the previous one is removed before the new
\* one is subscribed), after the unmount no channel remains, and so a
\* change of the table runs at most one callback, which starts one
\* complaint fetch.
\* ------------------------------------------------------------------------
\* the effect re-runs in this step: a filter Select or a pagination button
C24_Rerun(s) ==
    \/ \E v \in {"all"} \cup issueTypes : SetIssueTypeFilter(s, v)
    \/ \E v \in {"all", "Resolved"} : SetStatusFilter(s, v)
    \/ PreviousPage(s)
    \/ NextPage(s)

C24_State ==
    \A s \in Admin :
        /\ Len(channels[s]) <= 1
        /\ phase[s] = "unmounted" => channels[s] = <<>>

C24_Step ==
    \A s \in Admin :
        /\ C24_Rerun(s) =>
              channels'[s] = <<FetchRequest(filters'[s], currentPage'[s])>>
        /\ RealtimeEvent(s) =>
              Len(pendingFetches'[s]) = Len(pendingFetches[s]) + 1
        /\ phase[s] = "unmounted" =>
              Len(pendingFetches'[s]) <= Len(pendingFetches[s])

C24_AtMostOneSubscription == [](C24_State) /\ [][C24_Step]_vars

\* the session changed its filter, was pushed a change whose re-fetch is
\* still in flight, and was unmounted: nothing is subscribed any more
C24_Witness ==
    \E s \in Admin :
        /\ phase[s] = "unmounted"
        /\ filters[s].status = "Resolved"
        /\ channels[s] = <<>>
        /\ Len(pendingFetches[s]) = MaxPending

====
